---- MODULE Spec2Model ----
(***************************************************************************)
(* Model of check_ids_2025.py: the per-identifier verification loop of     *)
(* main(), with wait_for_table, ensure_admin_session, save_screenshot and  *)
(* extract_year.  The browser driver (Playwright) and the operator are the *)
(* environment: every driver call either returns, with an answer read from *)
(* the current page, or raises one of the faults that call can raise.      *)
(*                                                                         *)
(* Texts are sequences of one-character strings, so that the regular       *)
(* expression DATE_RE and datetime.strptime are computed, not assumed.     *)
(* Python's None is the empty set and a present year y is {y}.             *)
(***************************************************************************)
EXTENDS Integers, Sequences, FiniteSets, TLC

\* ------------------------------------------------------------------ bounds

\* Longest identifier list a run is given.
MaxIds == 2

\* Largest number of pieces a text given to extract_year alone is made of.
MaxSegs == 2

\* ------------------------------------------------------- program constants

OK_YEAR == 2025

SCREEN_DIR == "screenshots"

None == {}

Some(y) == {y}

\* ------------------------------------------------- text: DATE_RE, strptime

IsDigit(c) == c \in {"0", "1", "2", "3", "4", "5", "6", "7", "8", "9"}

\* \s of the re module, on the characters the model's texts use
IsSpace(c) == c \in {" ", "\t", "\n"}

DigitVal(c) ==
    CASE c = "0" -> 0 [] c = "1" -> 1 [] c = "2" -> 2 [] c = "3" -> 3
      [] c = "4" -> 4 [] c = "5" -> 5 [] c = "6" -> 6 [] c = "7" -> 7
      [] c = "8" -> 8 [] c = "9" -> 9

RECURSIVE SpaceRun(_, _)
\* length of the run of whitespace of t that starts at position q
SpaceRun(t, q) ==
    IF q <= Len(t) /\ IsSpace(t[q]) THEN 1 + SpaceRun(t, q + 1) ELSE 0

DigitsAt(t, q, n) ==
    /\ q + n - 1 <= Len(t)
    /\ \A k \in q..(q + n - 1) : IsDigit(t[k])

CharAt(t, q, c) == q <= Len(t) /\ t[q] = c

\* Length of the match of \d{2}\.\d{2}\.\d{4}\s+\d{2}:\d{2}:\d{2} anchored at
\* position p of t, 0 when there is none.  \s+ is followed by a digit, so it
\* takes the whole run of whitespace.
MatchLen(t, p) ==
    LET k == SpaceRun(t, p + 10)
        q == p + 10 + k
    IN  IF /\ DigitsAt(t, p, 2) /\ CharAt(t, p + 2, ".")
           /\ DigitsAt(t, p + 3, 2) /\ CharAt(t, p + 5, ".")
           /\ DigitsAt(t, p + 6, 4)
           /\ k >= 1
           /\ DigitsAt(t, q, 2) /\ CharAt(t, q + 2, ":")
           /\ DigitsAt(t, q + 3, 2) /\ CharAt(t, q + 5, ":")
           /\ DigitsAt(t, q + 6, 2)
        THEN 10 + k + 8
        ELSE 0

\* DATE_RE.search as "the last of DATE_RE.findall": the rightmost match
DATE_RE_search_last(t) ==
    LET ps == {p \in 1..Len(t) : MatchLen(t, p) > 0}
    IN  IF ps = {} THEN <<>>
        ELSE LET p == CHOOSE x \in ps : \A z \in ps : x >= z
             IN  SubSeq(t, p, p + MatchLen(t, p) - 1)

\* DATE_RE.search(t): group(0) of the leftmost match, <<>> when no match
DATE_RE_search(t) ==
    LET ps == {p \in 1..Len(t) : MatchLen(t, p) > 0}
    IN  IF ps = {} THEN <<>>
        ELSE LET p == CHOOSE x \in ps : \A z \in ps : x <= z
             IN  SubSeq(t, p, p + MatchLen(t, p) - 1)

RECURSIVE lstrip(_)
lstrip(t) == IF t # <<>> /\ IsSpace(Head(t)) THEN lstrip(Tail(t)) ELSE t

RECURSIVE rstrip(_)
rstrip(t) ==
    IF t # <<>> /\ IsSpace(t[Len(t)]) THEN rstrip(SubSeq(t, 1, Len(t) - 1)) ELSE t

\* str.strip()
strip(t) == rstrip(lstrip(t))

RECURSIVE Num(_, _, _)
\* the decimal number written by the n digits of t that start at q
Num(t, q, n) ==
    IF n = 0 THEN 0 ELSE 10 * Num(t, q, n - 1) + DigitVal(t[q + n - 1])

IsLeap(y) == (y % 4 = 0 /\ y % 100 # 0) \/ y % 400 = 0

DaysInMonth(m, y) ==
    IF m = 2 THEN (IF IsLeap(y) THEN 29 ELSE 28)
    ELSE IF m \in {4, 6, 9, 11} THEN 30 ELSE 31

\* datetime.strptime(s, "%d.%m.%Y %H:%M:%S").year for a string s that DATE_RE
\* matched whole; None where strptime raises ValueError.
strptime_year(s) ==
    LET d  == Num(s, 1, 2)
        m  == Num(s, 4, 2)
        y  == Num(s, 7, 4)
        q  == 11 + SpaceRun(s, 11)
        hh == Num(s, q, 2)
        mm == Num(s, q + 3, 2)
        ss == Num(s, q + 6, 2)
    IN  IF /\ m \in 1..12
           /\ y \in 1..9999
           /\ d \in 1..DaysInMonth(m, y)
           /\ hh \in 0..23 /\ mm \in 0..59 /\ ss \in 0..59
        THEN Some(y)
        ELSE None

\* extract_year(text) -> (date_str, year)
extract_year(text) ==
    LET t == strip(text)
        date_str == DATE_RE_search(t)
    IN  IF date_str = <<>>
        THEN [date_text |-> <<>>, year |-> None]
        ELSE [date_text |-> date_str, year |-> strptime_year(date_str)]

\* ------------------------------------------------------ inputs of the run

DigitChar(n) == <<"0", "1", "2", "3", "4", "5", "6", "7", "8", "9">>[n + 1]

D2(n) == <<DigitChar(n \div 10), DigitChar(n % 10)>>

D4(n) == D2(n \div 100) \o D2(n % 100)

\* the text "DD.MM.YYYY HH:MM:SS" of a row's date cell
Stamp(d, m, y, hh, mm, ss) ==
    D2(d) \o <<".">> \o D2(m) \o <<".">> \o D4(y) \o <<" ">>
          \o D2(hh) \o <<":">> \o D2(mm) \o <<":">> \o D2(ss)

T_ok == Stamp(1, 2, OK_YEAR, 10, 0, 0)

T_old == Stamp(1, 2, OK_YEAR - 1, 10, 0, 0)

\* 31 February: DATE_RE matches it, strptime refuses it
T_bad == Stamp(31, 2, OK_YEAR, 10, 0, 0)

\* a row without a date cell
T_none == <<"n", "/", "a">>

\* an impossible date followed by a valid one
T_two == T_bad \o <<" ">> \o T_ok

\* a date cell among other cells, with surrounding whitespace
T_cells == <<" ", "I", "D", "\t">> \o T_ok \o <<"\t", "Y", "\n">>

\* 29 February of a leap year
T_leap == Stamp(29, 2, 2024, 23, 59, 59)

\* a date and a time with a blank and a tab between them
T_gap == D2(1) \o <<".">> \o D2(2) \o <<".">> \o D4(OK_YEAR) \o <<" ", "\t">>
            \o D2(10) \o <<":">> \o D2(0) \o <<":">> \o D2(0)

\* hour 24: DATE_RE matches it, strptime refuses it
T_hour24 == Stamp(1, 2, OK_YEAR, 24, 0, 0)

\* a date without a time
S_date == D2(1) \o <<".">> \o D2(2) \o <<".">> \o D4(OK_YEAR)

S_space == <<" ">>

S_digit == <<"7">>

\* the pieces of the texts given to extract_year alone
Segs == {T_ok, T_old, T_leap, T_gap, T_bad, T_hour24, T_none, S_date, S_space, S_digit}

RECURSIVE Flatten(_)
\* the pieces of f one after the other
Flatten(f) == IF f = <<>> THEN <<>> ELSE Head(f) \o Flatten(Tail(f))

SegLists == UNION {[1..n -> Segs] : n \in 0..MaxSegs}

\* the texts given to extract_year alone
Texts == {Flatten(f) : f \in SegLists} \cup {T_two, T_cells}

\* the row texts of the pages of a run
RowTexts == {T_ok, T_bad}

Id_12 == <<"1", "2">>

Id_2 == <<"2">>

Id_7 == <<"7">>

\* identifiers as load_ids_from_csv yields them: stripped, not blank
IdPool == {Id_12, Id_2}

IdLists == UNION {[1..n -> IdPool] : n \in 0..MaxIds}

Row(link, text) == [link |-> link, text |-> text]

\* the rows of a results table: the text of each row's link and of the row
\* (a link "12" also has the text "2": the lookup of "2" finds its row first)
RowLists ==
    {<<>>, <<Row(Id_2, T_old)>>, <<Row(Id_7, T_ok), Row(Id_12, T_old), Row(Id_2, T_ok)>>}
        \cup {<<Row(Id_12, t)>> : t \in RowTexts}

\* What the code reads of a document: the logout link, the two login fields,
\* the results table and its rows.  The variable page is the document as the
\* latest navigation or wait found it: the calls that follow answer from it.
Pages ==
    {[logout |-> TRUE, login |-> FALSE, table |-> TRUE, rows |-> r] : r \in RowLists}
        \cup {[logout |-> lo, login |-> li, table |-> FALSE, rows |-> <<>>] :
                  lo \in BOOLEAN, li \in BOOLEAN}
        \cup {[logout |-> FALSE, login |-> FALSE, table |-> TRUE, rows |-> <<>>]}

\* no document: before the tab is opened and after the context is closed
NoPage == [logout |-> FALSE, login |-> FALSE, table |-> FALSE, rows |-> <<>>]

\* the admin root (BASE_URL/bitrix/admin/): the admin desktop, the login form
\* or a document still loading; it holds no results table
AdminRootPages == {p \in Pages : ~p.table /\ ~(p.logout /\ p.login)}

\* faults of playwright.sync_api and of input(): TimeoutError is a subclass of
\* Error, both are subclasses of Exception, as is the EOFError of input()
GotoFaults == {"Timeout", "PWError"}

WaitFaults == {"PWError"}

QueryFaults == {"PWError"}

InputFaults == {"Exception"}

TextFaults == {"Timeout", "PWError"}

\* ------------------------------------------------------------------- state

VARIABLES
    ids,              \* the identifier list of the run
    idx,              \* i of enumerate(ids, start=1); 0 before the loop
    pc,               \* position of main()
    ret,              \* the caller ensure_admin_session returns to
    page,             \* the document the tab shows
    exc,              \* the exception in flight, "none" when there is none
    item_id, status, date_text, year, screenshot_path, comment,
    results,          \* the list of result rows
    report,           \* the rows written to the report
    obs               \* what happened in the current check (history)

locals == <<item_id, status, date_text, year, screenshot_path, comment>>

vars == <<ids, idx, pc, ret, page, exc, locals, results, report, obs>>

NoComment == [kind |-> "", expected |-> {}, actual |-> {}, err |-> ""]

Obs0 ==
    [site |-> "none", found |-> "none", shots |-> 0, shotOk |-> FALSE,
     navs |-> 0, recNavs |-> 0, recNavOk |-> FALSE, recSess |-> 0,
     recFailed |-> FALSE, waits |-> 0, waitTimeouts |-> 0, waitSess |-> 0,
     mainSess |-> 0, shotFailed |-> FALSE]

Init ==
    /\ ids \in IdLists
    /\ idx = 0
    /\ pc = "start"
    /\ ret = "none"
    /\ page = NoPage
    /\ exc = "none"
    /\ item_id = <<>>
    /\ status = ""
    /\ date_text = <<>>
    /\ year = None
    /\ screenshot_path = <<>>
    /\ comment = NoComment
    /\ results = <<>>
    /\ report = <<>>
    /\ obs = Obs0

\* ----------------------------------------------------------------- helpers

make_url(id) == <<"highloadblock_rows_list.php", "find_id", id>>

SafeStatus(st) == IF st = "NOT FOUND" THEN "NOT_FOUND" ELSE st

\* save_screenshot without lines 77-79: the path is returned whatever happened
save_screenshot_always(ok, st, id) == <<SCREEN_DIR, SafeStatus(st), id>>

\* save_screenshot(page, status, item_id); ok: page.screenshot returned
save_screenshot(ok, st, id) ==
    IF ok THEN <<SCREEN_DIR, SafeStatus(st), id>> ELSE <<>>

\* the observations after a call of save_screenshot
Shot(o, ok) ==
    [o EXCEPT !.shots = @ + 1, !.shotOk = ok, !.shotFailed = @ \/ ~ok]

\* a:has-text('<id>') : the link's text contains the identifier
HasText(link, id) ==
    \E p \in 1..(Len(link) - Len(id) + 1) : SubSeq(link, p, p + Len(id) - 1) = id

Matches(pg, id) == {k \in 1..Len(pg.rows) : HasText(pg.rows[k].link, id)}

\* .first
First(S) == CHOOSE k \in S : \A z \in S : k <= z

is_logged_in_admin(pg) == pg.logout

is_login_page(pg) == pg.login

\* line 333 as "year if not year else ...": the condition inverted
Truthy_inverted(y) == ~(y # None /\ y # Some(0))

\* bool(year) in "year if year else ..."
Truthy(y) == y # None /\ y # Some(0)

FailComment(y) ==
    [kind |-> "Expected/actual", expected |-> Some(OK_YEAR),
     actual |-> IF Truthy(y) THEN y ELSE None, err |-> ""]

NotFoundComment ==
    [kind |-> "ID not found in table", expected |-> {}, actual |-> {}, err |-> ""]

ErrorComment(kind, e) == [kind |-> kind, expected |-> {}, actual |-> {}, err |-> e]

\* the row appended for the current identifier
Rec ==
    [ID |-> item_id, URL |-> make_url(item_id), date_text |-> date_text,
     year |-> year, expected |-> OK_YEAR, status |-> status,
     comment |-> comment, screenshot |-> screenshot_path]

\* ----------------------------------------------------------------- actions

\* raise e out of the try block of main (line 307): control passes to the
\* except clauses
Throw(e, o) ==
    /\ pc' = "except"
    /\ exc' = e
    /\ obs' = o

\* lines 282-294: launch the browser, open the admin root, wait for the operator.
\* None of it is inside a try block.
Launch ==
    /\ pc = "start"
    /\ \/ \E p \in AdminRootPages : page' = p /\ pc' = "loop"
       \/ pc' = "aborted" /\ UNCHANGED page
    /\ UNCHANGED <<ids, idx, ret, exc, locals, results, report, obs>>

\* lines 301-305 moved in front of the loop: the fields are set once, not per
\* identifier
LoopNext_noReset ==
    /\ pc = "loop"
    /\ idx < Len(ids)
    /\ idx' = idx + 1
    /\ item_id' = strip(ids[idx + 1])
    /\ status' = IF idx = 0 THEN "FAIL" ELSE status
    /\ pc' = "goto"
    /\ UNCHANGED <<ids, ret, page, exc, date_text, year, screenshot_path, comment,
                   results, report, obs>>

\* lines 301-305 without lines 302-303: the date text and the year of the
\* previous identifier are kept
LoopNext_keepDate ==
    /\ pc = "loop"
    /\ idx < Len(ids)
    /\ idx' = idx + 1
    /\ item_id' = strip(ids[idx + 1])
    /\ status' = "FAIL"
    /\ screenshot_path' = <<>>
    /\ comment' = NoComment
    /\ pc' = "goto"
    /\ UNCHANGED <<ids, ret, page, exc, date_text, year, results, report, obs>>

\* lines 297-305: the next identifier; the per-identifier fields are reset
LoopNext ==
    /\ pc = "loop"
    /\ idx < Len(ids)
    /\ idx' = idx + 1
    /\ item_id' = strip(ids[idx + 1])
    /\ status' = "FAIL"
    /\ date_text' = <<>>
    /\ year' = None
    /\ screenshot_path' = <<>>
    /\ comment' = NoComment
    /\ pc' = "goto"
    /\ UNCHANGED <<ids, ret, page, exc, results, report, obs>>

\* line 297: the list is exhausted
LoopExit ==
    /\ pc = "loop"
    /\ idx = Len(ids)
    /\ pc' = "close"
    /\ UNCHANGED <<ids, idx, ret, page, exc, locals, results, report, obs>>

\* line 308 inside a retry: a navigation that raised is attempted once more
Goto_retry ==
    /\ pc = "goto"
    /\ \E p \in Pages, o \in {"ok"} \cup GotoFaults :
          /\ page' = IF o = "ok" THEN p ELSE page
          /\ IF o = "ok"
             THEN /\ pc' = "wait_for_table"
                  /\ exc' = exc
                  /\ obs' = [obs EXCEPT !.navs = @ + 1]
             ELSE IF obs.navs = 0
             THEN /\ pc' = "goto"
                  /\ exc' = exc
                  /\ obs' = [obs EXCEPT !.navs = @ + 1]
             ELSE Throw(o, [obs EXCEPT !.navs = @ + 1, !.site = "goto"])
    /\ UNCHANGED <<ids, idx, ret, locals, results, report>>

\* line 308: page.goto(url)
Goto ==
    /\ pc = "goto"
    /\ \E p \in Pages, o \in {"ok"} \cup GotoFaults :
          /\ page' = IF o = "ok" THEN p ELSE page
          /\ IF o = "ok"
             THEN /\ pc' = "wait_for_table"
                  /\ exc' = exc
                  /\ obs' = [obs EXCEPT !.navs = @ + 1]
             ELSE Throw(o, [obs EXCEPT !.navs = @ + 1, !.site = "goto"])
    /\ UNCHANGED <<ids, idx, ret, locals, results, report>>

\* main without line 314: a table that appeared on the first wait is searched
\* without session assurance
WaitFirst_noEnsure ==
    /\ pc = "wait_for_table"
    /\ \E p \in Pages, o \in {"wait"} \cup WaitFaults :
          /\ page' = IF o = "wait" THEN p ELSE page
          /\ LET o1 == [obs EXCEPT !.waits = @ + 1]
             IN  IF o \in WaitFaults
                 THEN Throw(o, [o1 EXCEPT !.site = "wait"]) /\ ret' = ret
                 ELSE IF p.table
                 THEN /\ pc' = "locate"
                      /\ ret' = ret
                      /\ exc' = exc
                      /\ obs' = o1
                 ELSE /\ pc' = "ensure_admin_session"
                      /\ ret' = "wait"
                      /\ exc' = exc
                      /\ obs' = [o1 EXCEPT !.waitTimeouts = @ + 1, !.waitSess = @ + 1]
    /\ UNCHANGED <<ids, idx, locals, results, report>>

\* lines 129-133 and 314: the first wait for the table.  When it returns, main
\* calls ensure_admin_session (line 314); when it times out, wait_for_table
\* calls it (line 133); any other fault leaves wait_for_table.
WaitFirst ==
    /\ pc = "wait_for_table"
    /\ \E p \in Pages, o \in {"wait"} \cup WaitFaults :
          /\ page' = IF o = "wait" THEN p ELSE page
          /\ LET o1 == [obs EXCEPT !.waits = @ + 1]
             IN  IF o \in WaitFaults
                 THEN Throw(o, [o1 EXCEPT !.site = "wait"]) /\ ret' = ret
                 ELSE IF p.table
                 THEN /\ pc' = "ensure_admin_session"
                      /\ ret' = "main"
                      /\ exc' = exc
                      /\ obs' = [o1 EXCEPT !.mainSess = @ + 1]
                 ELSE /\ pc' = "ensure_admin_session"
                      /\ ret' = "wait"
                      /\ exc' = exc
                      /\ obs' = [o1 EXCEPT !.waitTimeouts = @ + 1, !.waitSess = @ + 1]
    /\ UNCHANGED <<ids, idx, locals, results, report>>

\* return of ensure_admin_session to its caller: line 134, line 317 or the end
\* of the recovery (line 350)
EnsureReturn(o) ==
    /\ pc' = IF ret = "wait" THEN "wait_retry"
             ELSE IF ret = "main" THEN "locate" ELSE "append"
    /\ ret' = "none"
    /\ exc' = exc
    /\ obs' = o

\* a fault inside ensure_admin_session: raised out of the try block, or, in
\* the recovery, swallowed by lines 351-352
EnsureFault(e, o) ==
    /\ ret' = "none"
    /\ IF ret = "recover"
       THEN /\ pc' = "append"
            /\ exc' = exc
            /\ obs' = [o EXCEPT !.recFailed = TRUE]
       ELSE Throw(e, [o EXCEPT !.site = IF ret = "wait" THEN "wait_ensure" ELSE "ensure"])

\* lines 114-117 with the two tests in the other order: the login form is
\* looked for first
EnsureClassify_loginFirst ==
    /\ pc = "ensure_admin_session"
    /\ \/ \E e \in QueryFaults : EnsureFault(e, obs)
       \/ /\ is_login_page(page)
          /\ pc' = "input"
          /\ UNCHANGED <<ret, exc, obs>>
       \/ /\ ~is_login_page(page)
          /\ is_logged_in_admin(page)
          /\ EnsureReturn(obs)
       \/ /\ ~is_login_page(page)
          /\ ~is_logged_in_admin(page)
          /\ pc' = "wait_for_timeout"
          /\ UNCHANGED <<ret, exc, obs>>
    /\ UNCHANGED <<ids, idx, page, locals, results, report>>

\* lines 114-117: classify the page
EnsureClassify ==
    /\ pc = "ensure_admin_session"
    /\ \/ \E e \in QueryFaults : EnsureFault(e, obs)
       \/ /\ is_logged_in_admin(page)
          /\ EnsureReturn(obs)
       \/ /\ ~is_logged_in_admin(page)
          /\ is_login_page(page)
          /\ pc' = "input"
          /\ UNCHANGED <<ret, exc, obs>>
       \/ /\ ~is_logged_in_admin(page)
          /\ ~is_login_page(page)
          /\ pc' = "wait_for_timeout"
          /\ UNCHANGED <<ret, exc, obs>>
    /\ UNCHANGED <<ids, idx, page, locals, results, report>>

\* lines 118-120: input() returns when the operator presses ENTER
OperatorConfirm ==
    /\ pc = "input"
    /\ \/ EnsureReturn(obs)
       \/ \E e \in InputFaults : EnsureFault(e, obs)
    /\ UNCHANGED <<ids, idx, page, locals, results, report>>

\* line 123: page.wait_for_timeout(500)
GraceWait ==
    /\ pc = "wait_for_timeout"
    /\ \/ EnsureReturn(obs)
       \/ \E e \in WaitFaults : EnsureFault(e, obs)
    /\ UNCHANGED <<ids, idx, page, locals, results, report>>

\* line 134 inside a loop: a timeout of the retry is followed by another round
\* of session assurance and waiting
WaitRetry_again ==
    /\ pc = "wait_retry"
    /\ \E p \in Pages, o \in {"wait"} \cup WaitFaults :
          /\ page' = IF o = "wait" THEN p ELSE page
          /\ LET o1 == [obs EXCEPT !.waits = @ + 1]
             IN  IF o \in WaitFaults
                 THEN Throw(o, [o1 EXCEPT !.site = "wait"]) /\ ret' = ret
                 ELSE IF p.table
                 THEN /\ pc' = "ensure_admin_session"
                      /\ ret' = "main"
                      /\ exc' = exc
                      /\ obs' = [o1 EXCEPT !.mainSess = @ + 1]
                 ELSE IF obs.waits < 3
                 THEN /\ pc' = "ensure_admin_session"
                      /\ ret' = "wait"
                      /\ exc' = exc
                      /\ obs' = [o1 EXCEPT !.waitTimeouts = @ + 1, !.waitSess = @ + 1]
                 ELSE /\ Throw("Timeout", [o1 EXCEPT !.waitTimeouts = @ + 1, !.site = "wait"])
                      /\ ret' = ret
    /\ UNCHANGED <<ids, idx, locals, results, report>>

\* line 134: the second wait for the table; its timeout leaves wait_for_table
WaitRetry ==
    /\ pc = "wait_retry"
    /\ \E p \in Pages, o \in {"wait"} \cup WaitFaults :
          /\ page' = IF o = "wait" THEN p ELSE page
          /\ LET o1 == [obs EXCEPT !.waits = @ + 1]
             IN  IF o \in WaitFaults
                 THEN Throw(o, [o1 EXCEPT !.site = "wait"]) /\ ret' = ret
                 ELSE IF p.table
                 THEN /\ pc' = "ensure_admin_session"
                      /\ ret' = "main"
                      /\ exc' = exc
                      /\ obs' = [o1 EXCEPT !.mainSess = @ + 1]
                 ELSE /\ Throw("Timeout", [o1 EXCEPT !.waitTimeouts = @ + 1, !.site = "wait"])
                      /\ ret' = ret
    /\ UNCHANGED <<ids, idx, locals, results, report>>

\* line 320, left out: the status stays the "FAIL" of line 301
StatusNotFound_unset == "FAIL"

\* line 320
StatusNotFound == "NOT FOUND"

\* lines 317-322: look the identifier's link up
Locate ==
    /\ pc = "locate"
    /\ \/ /\ \E e \in QueryFaults : Throw(e, [obs EXCEPT !.site = "locate"])
          /\ UNCHANGED locals
       \/ /\ Matches(page, item_id) = {}
          /\ status' = StatusNotFound
          /\ comment' = NotFoundComment
          /\ \E ok \in BOOLEAN :
                /\ screenshot_path' = save_screenshot(ok, StatusNotFound, item_id)
                /\ obs' = Shot([obs EXCEPT !.found = "absent"], ok)
          /\ pc' = "append"
          /\ UNCHANGED <<exc, item_id, date_text, year>>
       \/ /\ Matches(page, item_id) # {}
          /\ pc' = "inner_text"
          /\ obs' = [obs EXCEPT !.found = "present"]
          /\ UNCHANGED <<exc, locals>>
    /\ UNCHANGED <<ids, idx, ret, page, results, report>>

\* line 329 as "if year:": any recognised year passes
Classify_anyYear(y) == IF y # None THEN "OK" ELSE "FAIL"

\* line 329 as "if not year or year == OK_YEAR": an unrecognised date passes
Classify_noneOk(y) == IF y = None \/ y = Some(OK_YEAR) THEN "OK" ELSE "FAIL"

\* lines 329-332: the status of a row whose year is y
Classify(y) == IF y = Some(OK_YEAR) THEN "OK" ELSE "FAIL"

\* lines 324-334: read the row's text, extract the year, classify
InnerText ==
    /\ pc = "inner_text"
    /\ \/ /\ \E e \in TextFaults : Throw(e, [obs EXCEPT !.site = "inner_text"])
          /\ UNCHANGED locals
       \/ LET row_text == page.rows[First(Matches(page, item_id))].text
              ex == extract_year(row_text)
          IN  /\ date_text' = ex.date_text
              /\ year' = ex.year
              /\ status' = Classify(ex.year)
              /\ IF Classify(ex.year) = "OK"
                 THEN UNCHANGED <<comment, screenshot_path, obs>>
                 ELSE /\ comment' = FailComment(ex.year)
                      /\ \E ok \in BOOLEAN :
                            /\ screenshot_path' = save_screenshot(ok, Classify(ex.year), item_id)
                            /\ obs' = Shot(obs, ok)
              /\ pc' = "append"
              /\ UNCHANGED <<exc, item_id>>
    /\ UNCHANGED <<ids, idx, ret, page, results, report>>

\* the body shared by the three except clauses: ERROR, comment, screenshot
Handle(kind, next) ==
    /\ status' = "ERROR"
    /\ comment' = ErrorComment(kind, exc)
    /\ \E ok \in BOOLEAN :
          /\ screenshot_path' = save_screenshot(ok, "ERROR", item_id)
          /\ obs' = Shot(obs, ok)
    /\ pc' = next
    /\ UNCHANGED <<ids, idx, ret, page, exc, item_id, date_text, year, results, report>>

\* lines 336-339 without line 337: the status stays the "FAIL" of line 301
ExceptTimeout_noStatus ==
    /\ pc = "except"
    /\ exc = "Timeout"
    /\ comment' = ErrorComment("Timeout", exc)
    /\ \E ok \in BOOLEAN :
          /\ screenshot_path' = save_screenshot(ok, "ERROR", item_id)
          /\ obs' = Shot(obs, ok)
    /\ pc' = "append"
    /\ UNCHANGED <<ids, idx, ret, page, exc, item_id, status, date_text, year,
                   results, report>>

\* lines 336-339 followed by the recovery of lines 348-352
ExceptTimeout_recover ==
    /\ pc = "except"
    /\ exc = "Timeout"
    /\ Handle("Timeout", "recover")

\* lines 336-339
ExceptTimeout ==
    /\ pc = "except"
    /\ exc = "Timeout"
    /\ Handle("Timeout", "append")

\* lines 341-345; the recovery of lines 348-352 follows
ExceptPWError ==
    /\ pc = "except"
    /\ exc = "PWError"
    /\ Handle("Playwright error", "recover")

\* main without lines 354-357: a fault that is no Playwright error leaves main
ExceptException_uncaught ==
    /\ pc = "except"
    /\ exc = "Exception"
    /\ pc' = "aborted"
    /\ UNCHANGED <<ids, idx, ret, page, exc, locals, results, report, obs>>

\* lines 354-357
ExceptException ==
    /\ pc = "except"
    /\ exc = "Exception"
    /\ Handle("Exception", "append")

\* lines 349-350 without the try of lines 348-352: a fault of the recovery
\* navigation leaves main
RecoverGoto_unguarded ==
    /\ pc = "recover"
    /\ \E p \in AdminRootPages, o \in {"ok"} \cup GotoFaults :
          /\ page' = IF o = "ok" THEN p ELSE page
          /\ IF o = "ok"
             THEN /\ pc' = "ensure_admin_session"
                  /\ ret' = "recover"
                  /\ obs' = [obs EXCEPT !.recNavs = @ + 1, !.recNavOk = TRUE,
                                        !.recSess = @ + 1]
             ELSE /\ pc' = "aborted"
                  /\ ret' = ret
                  /\ obs' = [obs EXCEPT !.recNavs = @ + 1, !.recFailed = TRUE]
    /\ UNCHANGED <<ids, idx, exc, locals, results, report>>

\* line 349: navigate to the admin root; line 350 follows when it returns,
\* lines 351-352 swallow its fault
RecoverGoto ==
    /\ pc = "recover"
    /\ \E p \in AdminRootPages, o \in {"ok"} \cup GotoFaults :
          /\ page' = IF o = "ok" THEN p ELSE page
          /\ IF o = "ok"
             THEN /\ pc' = "ensure_admin_session"
                  /\ ret' = "recover"
                  /\ obs' = [obs EXCEPT !.recNavs = @ + 1, !.recNavOk = TRUE,
                                        !.recSess = @ + 1]
             ELSE /\ pc' = "append"
                  /\ ret' = ret
                  /\ obs' = [obs EXCEPT !.recNavs = @ + 1, !.recFailed = TRUE]
    /\ UNCHANGED <<ids, idx, exc, locals, results, report>>

\* line 359 as results.insert(0, ...): the newest row comes first
AppendResult_prepend ==
    /\ pc = "append"
    /\ results' = <<Rec>> \o results
    /\ pc' = "loop"
    /\ exc' = "none"
    /\ obs' = Obs0
    /\ UNCHANGED <<ids, idx, ret, page, locals, report>>

\* lines 359-372: append the row, log it, go to the next identifier
AppendResult ==
    /\ pc = "append"
    /\ results' = Append(results, Rec)
    /\ pc' = "loop"
    /\ exc' = "none"
    /\ obs' = Obs0
    /\ UNCHANGED <<ids, idx, ret, page, locals, report>>

\* line 374: context.close(), outside any try block
Close ==
    /\ pc = "close"
    /\ \/ pc' = "report"
       \/ pc' = "aborted"
    /\ page' = NoPage
    /\ UNCHANGED <<ids, idx, ret, exc, locals, results, report, obs>>

\* lines 377-378: the rows are written to the report
Report ==
    /\ pc = "report"
    /\ report' = results
    /\ pc' = "done"
    /\ UNCHANGED <<ids, idx, ret, page, exc, locals, results, obs>>

Next ==
    \/ Launch \/ LoopNext \/ LoopExit \/ Goto \/ WaitFirst \/ EnsureClassify
    \/ OperatorConfirm \/ GraceWait \/ WaitRetry \/ Locate \/ InnerText
    \/ ExceptTimeout \/ ExceptPWError \/ ExceptException \/ RecoverGoto
    \/ AppendResult \/ Close \/ Report

Spec == Init /\ [][Next]_vars

\* extract_year alone: the text of a row is given, the function is called on it
\* twice, and results holds what the calls returned
ExtractInit ==
    /\ ids = <<Id_2>>
    /\ idx = 1
    /\ pc = "extract_year"
    /\ ret = "none"
    /\ \E t \in Texts :
          page = [logout |-> TRUE, login |-> FALSE, table |-> TRUE, rows |-> <<Row(Id_2, t)>>]
    /\ exc = "none"
    /\ item_id = Id_2
    /\ status = "FAIL"
    /\ date_text = <<>>
    /\ year = None
    /\ screenshot_path = <<>>
    /\ comment = NoComment
    /\ results = <<>>
    /\ report = <<>>
    /\ obs = Obs0

\* lines 83-95, called as at line 327: date_text, year = extract_year(row_text)
ExtractCall ==
    /\ pc = "extract_year"
    /\ Len(results) < 2
    /\ LET ex == extract_year(page.rows[1].text)
       IN  /\ date_text' = ex.date_text
           /\ year' = ex.year
           /\ results' = Append(results, ex)
    /\ UNCHANGED <<ids, idx, pc, ret, page, exc, item_id, status, screenshot_path,
                   comment, report, obs>>

ExtractNext == ExtractCall

ExtractSpec == ExtractInit /\ [][ExtractNext]_vars

\* main is one sequential thread: a step that is possible is taken, under the
\* assumption that every driver call returns or raises and that the operator
\* answers every prompt
FairSpec == Spec /\ WF_vars(Next)

\* ------------------------------------------------------------ properties

\* positions of main inside the check of one identifier
CheckPcs ==
    {"goto", "wait_for_table", "ensure_admin_session", "input", "wait_for_timeout",
     "wait_retry", "locate", "inner_text", "except", "recover", "append"}

\* the check of the current identifier is over and its row is about to be appended
AtAppend == pc = "append"

\* the current page has a link that matches the current identifier
RowExists == Matches(page, item_id) # {}

\* the results table appeared in the current check (line 311 returned)
TableShown == obs.mainSess = 1

\* a fault left the try block of main in the current check
Propagated == obs.site # "none"

\* a fault was raised in the current check, whether or not it left the try block
FaultRaised ==
    \/ Propagated
    \/ obs.waitTimeouts > 0
    \/ obs.shotFailed
    \/ obs.recFailed

\* C1: the result list holds one row per identifier processed so far, in input
\* order, duplicates included; when the loop has finished it holds one row per
\* input identifier, the i-th row carrying the i-th identifier.
C1_ResultsFollowInput ==
    /\ Len(results) = IF pc \in CheckPcs THEN idx - 1 ELSE idx
    /\ Len(results) <= Len(ids)
    /\ \A k \in 1..Len(results) : results[k].ID = ids[k]
    /\ pc \in {"close", "report", "done"} => Len(results) = Len(ids)

\* C1 witness: the loop has finished on a list that names one identifier twice,
\* and the two rows differ.
C1_Witness ==
    /\ pc = "close"
    /\ Len(ids) = MaxIds
    /\ ids[1] = ids[MaxIds]
    /\ results[1].status = "ERROR"
    /\ results[MaxIds].status = "NOT FOUND"

\* C2 as stated: whenever a fault was raised in an identifier's check, that of a
\* screenshot capture or of the recovery included, the row of that identifier
\* has status ERROR.
C2_EveryFaultYieldsError == AtAppend /\ FaultRaised => status = "ERROR"

\* C2 amended: no fault of a check ends the run (the run is only ever
\* abandoned before the first identifier or after the last row), one row is
\* appended per identifier checked, and the row has status ERROR when the fault
\* left the try block; a recovered first wait, a failed capture and a failed
\* recovery by themselves leave the status alone.
C2_FaultsAreContained ==
    /\ pc = "aborted" => /\ Len(results) = idx
                         /\ idx \in {0, Len(ids)}
    /\ pc = "except" => exc \in {"Timeout", "PWError", "Exception"}
    /\ pc \in CheckPcs => Len(results) = idx - 1
    /\ pc = "loop" => Len(results) = idx
    /\ AtAppend /\ Propagated => status = "ERROR"
    /\ AtAppend /\ ~Propagated => status \in {"OK", "FAIL", "NOT FOUND"}

\* C2 witness: the first identifier's check raised a fault that is no Playwright
\* error, its row is ERROR, and the second identifier is being checked.
C2_Witness ==
    /\ pc = "goto"
    /\ idx = 2
    /\ Len(results) = 1
    /\ results[1].status = "ERROR"
    /\ results[1].comment.kind = "Exception"

\* C3: a row has status OK exactly when its year is present and is OK_YEAR.
C3_OkIffExpectedYear ==
    /\ \A k \in 1..Len(results) :
          results[k].status = "OK" <=> results[k].year = Some(OK_YEAR)
    /\ AtAppend => (status = "OK" <=> year = Some(OK_YEAR))

\* C3 witness: one row is OK with the expected year and another row has a year
\* that was recognised and is not the expected one.
C3_Witness ==
    /\ Len(results) = 2
    /\ results[1].status = "OK"
    /\ results[1].year = Some(OK_YEAR)
    /\ results[2].status = "FAIL"
    /\ results[2].year = Some(OK_YEAR - 1)

\* C4 as stated: the status is NOT FOUND exactly when the page has no row that
\* matches the identifier (taken where it is most favourable to the claim: the
\* results table did appear).
C4_NotFoundIffNoRow ==
    AtAppend /\ TableShown /\ page.table => (status = "NOT FOUND" <=> ~RowExists)

\* C4 amended: the status is NOT FOUND exactly when the lookup ran and found
\* no link; the lookup finds no link exactly when the page has no matching
\* row; and in a check that no fault left, the status is NOT FOUND exactly when
\* the page has no matching row.
C4_NotFoundIffLookupEmpty ==
    AtAppend =>
        /\ status = "NOT FOUND" <=> obs.found = "absent"
        /\ obs.found = "absent" => ~RowExists
        /\ obs.found = "present" /\ ~Propagated => RowExists
        /\ ~Propagated => (status = "NOT FOUND" <=> ~RowExists)

\* C4 witness: the page lists rows, none matches the identifier, and the status
\* is NOT FOUND.
C4_Witness ==
    /\ AtAppend
    /\ status = "NOT FOUND"
    /\ page.rows # <<>>
    /\ ~RowExists

\* C5 as stated: the status is FAIL exactly when a matching row exists and the
\* extracted year is absent or is not the expected year (taken where the
\* lookup ran and found the row).
C5_FailIffRowAndWrongYear ==
    AtAppend /\ obs.found = "present" /\ RowExists =>
        (status = "FAIL" <=> year # Some(OK_YEAR))

\* C5 amended: the status is FAIL exactly when the lookup found the row, no
\* fault left the check, and the extracted year is absent or is not the
\* expected year; in a check that no fault left this is exactly when a matching
\* row exists with such a year; and a date that DATE_RE found and strptime
\* refused gives FAIL, never ERROR.
C5_FailIffRowReadAndWrongYear ==
    AtAppend =>
        /\ status = "FAIL" <=>
              (obs.found = "present" /\ ~Propagated /\ year # Some(OK_YEAR))
        /\ ~Propagated => (status = "FAIL" <=> (RowExists /\ year # Some(OK_YEAR)))
        /\ date_text # <<>> /\ year = None => status = "FAIL"

\* C5 witness: the row's date is 31 February, which is found and not parsed, and
\* the status is FAIL.
C5_Witness ==
    /\ AtAppend
    /\ date_text = T_bad
    /\ year = None
    /\ status = "FAIL"

\* the places of the try block a fault can leave it from
FaultSites == {"goto", "wait", "wait_ensure", "ensure", "locate", "inner_text"}

\* C6: the status is ERROR exactly when a fault left the navigation, the table
\* wait, session assurance, the row lookup or the reading of the row; a first
\* wait that timed out and was recovered by the retry, and a failed screenshot
\* capture, do not make the status ERROR.
C6_ErrorIffFaultPropagated ==
    /\ obs.site \in FaultSites \cup {"none"}
    /\ AtAppend =>
          /\ status = "ERROR" <=> obs.site \in FaultSites
          /\ status = "ERROR" <=> exc # "none"
          /\ ~Propagated /\ (obs.waitTimeouts = 1 \/ obs.shotFailed) => status # "ERROR"
    /\ \A k \in 1..Len(results) :
          results[k].status = "ERROR" <=>
              results[k].comment.kind \in {"Timeout", "Playwright error", "Exception"}

\* C6 witness: the first wait timed out, the retry found the table, the capture
\* failed, and the status is not ERROR.
C6_Witness ==
    /\ AtAppend
    /\ obs.waitTimeouts = 1
    /\ obs.waits = 2
    /\ obs.shotFailed
    /\ status = "NOT FOUND"

\* C7 as stated: when the lookup finds no row, the row of the report has status
\* NOT FOUND, a screenshot path that is not empty, and no year.
C7_NotFoundHasScreenshot ==
    AtAppend /\ obs.found = "absent" =>
        /\ status = "NOT FOUND"
        /\ screenshot_path # <<>>
        /\ year = None

\* C7 amended: when the lookup finds no row, the status is NOT FOUND, the year
\* is absent, one capture is attempted, and the screenshot path is the file's
\* path when the capture succeeded and empty when it failed.
C7_NotFoundScreenshotIfCaptured ==
    AtAppend /\ obs.found = "absent" =>
        /\ status = "NOT FOUND"
        /\ year = None
        /\ date_text = <<>>
        /\ obs.shots = 1
        /\ obs.shotOk => screenshot_path = <<SCREEN_DIR, "NOT_FOUND", item_id>>
        /\ ~obs.shotOk => screenshot_path = <<>>

\* C7 witness: no row was found and the capture succeeded.
C7_Witness ==
    /\ AtAppend
    /\ obs.found = "absent"
    /\ obs.shotOk
    /\ screenshot_path # <<>>

\* C8: an OK row has no screenshot path and no comment, and no capture was
\* attempted for it; a comment is present only in FAIL, NOT FOUND and ERROR
\* rows; a screenshot path is present only when a capture was attempted and
\* succeeded.
C8_OkRowsAreBare ==
    /\ \A k \in 1..Len(results) :
          /\ results[k].status = "OK" =>
                results[k].screenshot = <<>> /\ results[k].comment = NoComment
          /\ results[k].comment # NoComment =>
                results[k].status \in {"FAIL", "NOT FOUND", "ERROR"}
    /\ AtAppend =>
          /\ status = "OK" => obs.shots = 0 /\ screenshot_path = <<>> /\ comment = NoComment
          /\ comment # NoComment => status \in {"FAIL", "NOT FOUND", "ERROR"}
          /\ screenshot_path # <<>> => obs.shots = 1 /\ obs.shotOk

\* C8 witness: an OK row is about to follow a row that has a screenshot and a
\* comment.
C8_Witness ==
    /\ AtAppend
    /\ status = "OK"
    /\ Len(results) = 1
    /\ results[1].screenshot # <<>>
    /\ results[1].comment # NoComment

\* wait_for_table (line 311) was called in the current check and has been left
WaitExited ==
    /\ obs.waits >= 1
    /\ pc # "wait_retry"
    /\ ret # "wait"

\* C9 as stated: when the first wait times out, session assurance is invoked
\* once and the wait is retried once.
C9_TimeoutAlwaysRetried ==
    WaitExited /\ obs.waitTimeouts >= 1 => obs.waitSess = 1 /\ obs.waits = 2

\* C9 amended: a call of wait_for_table waits at most twice; a first wait that
\* succeeds is followed by no session check of wait_for_table and no second
\* wait; a first wait that times out is followed by one session assurance and,
\* when that returns, by one more wait, and when session assurance raises a
\* fault there is no second wait and the fault leaves wait_for_table; a second
\* timeout leaves wait_for_table as a timeout, and main records ERROR for that
\* identifier and goes on.
C9_AtMostOneRetry ==
    /\ obs.waits <= 2
    /\ obs.waitSess <= 1
    /\ obs.waitTimeouts <= obs.waits
    /\ WaitExited /\ obs.waitTimeouts = 0 => obs.waits = 1 /\ obs.waitSess = 0
    /\ WaitExited /\ obs.waitTimeouts >= 1 =>
          /\ obs.waitSess = 1
          /\ obs.waits = 2 \/ (obs.waits = 1 /\ obs.site = "wait_ensure")
    /\ obs.waitTimeouts = 2 =>
          /\ obs.site = "wait"
          /\ exc = "Timeout"
          /\ pc \in {"except", "append"}
          /\ AtAppend => status = "ERROR" /\ comment.kind = "Timeout"
    /\ pc = "aborted" => obs.waits = 0

\* C9 witness: both waits timed out and the identifier is recorded as ERROR.
C9_Witness ==
    /\ AtAppend
    /\ obs.waitTimeouts = 2
    /\ obs.waits = 2
    /\ obs.waitSess = 1
    /\ status = "ERROR"
    /\ idx < Len(ids)

\* C10: a Playwright fault that is no timeout, leaving the check, is followed by
\* one navigation to the admin root and, when that returns, by one session
\* assurance; the identifier is recorded as ERROR; a fault of the recovery is
\* swallowed, so that the row is appended and the run goes on.
C10_OneRecovery ==
    /\ obs.recNavs <= 1
    /\ obs.recSess <= 1
    /\ obs.recNavs = 1 => exc = "PWError"
    /\ obs.recSess = 1 <=> obs.recNavOk
    /\ obs.recFailed => obs.recNavs = 1
    /\ AtAppend /\ exc = "PWError" => obs.recNavs = 1 /\ status = "ERROR"
    /\ pc = "aborted" => obs.recNavs = 0
    /\ \A k \in 1..Len(results) :
          results[k].comment.kind = "Playwright error" => results[k].status = "ERROR"

\* C10 witness: the recovery's session assurance failed, the failure was
\* swallowed, the row is ERROR and another identifier is still to be checked.
C10_Witness ==
    /\ AtAppend
    /\ exc = "PWError"
    /\ obs.recNavOk
    /\ obs.recFailed
    /\ status = "ERROR"
    /\ idx < Len(ids)

\* C11: the check of an identifier navigates to the identifier's URL exactly
\* once, first of all, navigates to the admin root at most once, and attempts at
\* most one screenshot capture; a capture that fails does not end the check or
\* the run and leaves the screenshot path empty.
C11_OneNavigationOneCapture ==
    /\ pc = "goto" => obs.navs = 0 /\ obs.recNavs = 0 /\ obs.shots = 0
    /\ pc \in CheckPcs \ {"goto"} => obs.navs = 1
    /\ obs.recNavs <= 1
    /\ obs.shots <= 1
    /\ obs.shotFailed => /\ obs.shots = 1
                         /\ screenshot_path = <<>>
                         /\ pc \in {"append", "recover", "ensure_admin_session",
                                     "input", "wait_for_timeout"}
    /\ AtAppend /\ status # "OK" => obs.shots = 1
    /\ \A k \in 1..Len(results) :
          results[k].screenshot \in {<<>>, <<SCREEN_DIR, SafeStatus(results[k].status), results[k].ID>>}

\* C11 witness: a check that navigated once, took the recovery navigation once
\* and whose one capture failed is over; its screenshot path is empty and
\* another identifier is still to be checked.
C11_Witness ==
    /\ AtAppend
    /\ obs.navs = 1
    /\ obs.recNavs = 1
    /\ obs.shots = 1
    /\ obs.shotFailed
    /\ screenshot_path = <<>>
    /\ idx < Len(ids)

\* C12: when the run has ended, the rows collected so far have been handed to
\* the report: all of them, in order, after the last identifier, and the
\* partial list when a fault ended the run early (line 293 or line 374 raised).
C12_ResultsAlwaysReported ==
    /\ pc = "done" => report = results /\ Len(report) = Len(ids)
    /\ pc = "aborted" => report = results

\* C13: under the fairness of FairSpec, a run that is given identifiers
\* eventually writes the report, and
\* the report then holds exactly one row per input identifier, in input order,
\* whatever faults were raised on the way.
C13_EveryIdEventuallyReported ==
    ids # <<>> =>
    <>(/\ pc = "done"
       /\ Len(report) = Len(ids)
       /\ \A k \in 1..Len(ids) : report[k].ID = ids[k])

\* C14: the comment of a FAIL row names the expected year; when the row's date
\* was parsed to another year it names that year as the actual one, and when no
\* date was parsed the year is absent and the comment names no actual year
\* ("not recognized").  A row dated 01.02 of the expected year is OK, the same
\* row dated a year earlier is FAIL with both years in the comment.
C14_FailCommentNamesYears ==
    /\ \A k \in 1..Len(results) :
          LET r == results[k]
          IN  /\ r.status = "FAIL" =>
                    /\ r.comment.kind = "Expected/actual"
                    /\ r.comment.expected = Some(r.expected)
                    /\ r.expected = OK_YEAR
                    /\ r.comment.actual = r.year
                    /\ r.year # Some(OK_YEAR)
              /\ r.date_text = T_ok => r.status = "OK" /\ r.comment = NoComment
              /\ r.date_text = T_old =>
                    /\ r.status = "FAIL"
                    /\ r.comment.expected = Some(OK_YEAR)
                    /\ r.comment.actual = Some(OK_YEAR - 1)
              /\ r.date_text = T_bad =>
                    r.status = "FAIL" /\ r.year = None /\ r.comment.actual = None
    /\ AtAppend /\ status = "FAIL" =>
          /\ comment = FailComment(year)
          /\ comment.actual = year

\* C14 witness: one FAIL row names the expected year and another actual year,
\* and the FAIL row that follows it has a date that was not parsed and names no
\* actual year.
C14_Witness ==
    /\ AtAppend
    /\ Len(results) = 1
    /\ results[1].status = "FAIL"
    /\ results[1].comment.actual = Some(OK_YEAR - 1)
    /\ status = "FAIL"
    /\ date_text = T_bad
    /\ comment.actual = None

\* a step in which a fault was raised out of ensure_admin_session
EnsureFaulted == obs'.site # obs.site \/ obs'.recFailed # obs.recFailed

\* a step in which ensure_admin_session returned to its caller
EnsureReturned ==
    /\ ~EnsureFaulted
    /\ ret' = "none"
    /\ pc' = (IF ret = "wait" THEN "wait_retry" ELSE IF ret = "main" THEN "locate" ELSE "append")

\* C15: ensure_admin_session acts on the page as it is when called: with a
\* logout link it returns at once, without prompt and without wait; with both
\* login fields and no logout link it prompts the operator and returns when the
\* operator confirms; otherwise it waits the grace period once and returns.  It
\* never classifies twice in one call, and it never prompts on a page that has
\* a logout link.
C15_EnsureActsOnClassification ==
    [][/\ pc = "ensure_admin_session" /\ ~EnsureFaulted =>
             /\ is_logged_in_admin(page) => EnsureReturned
             /\ ~is_logged_in_admin(page) /\ is_login_page(page) => pc' = "input"
             /\ ~is_logged_in_admin(page) /\ ~is_login_page(page) => pc' = "wait_for_timeout"
       /\ pc' = "input" =>
             pc = "ensure_admin_session" /\ ~is_logged_in_admin(page) /\ is_login_page(page)
       /\ pc' = "wait_for_timeout" =>
             pc = "ensure_admin_session" /\ ~is_logged_in_admin(page) /\ ~is_login_page(page)
       /\ pc \in {"input", "wait_for_timeout"} =>
             (EnsureFaulted \/ EnsureReturned) /\ page' = page
       /\ pc' = "ensure_admin_session" => pc \in {"wait_for_table", "wait_retry", "recover"}
      ]_vars

\* C15 witness: the first wait timed out on the login form, the operator was
\* prompted and confirmed, and wait_for_table is about to wait again.
C15_Witness ==
    /\ pc = "wait_retry"
    /\ obs.waitSess = 1
    /\ ~is_logged_in_admin(page)
    /\ is_login_page(page)

\* C16: in the check of an identifier the navigation comes first, then the wait
\* for the table, then session assurance, then the lookup, then the reading and
\* classification of the row: the lookup is reached only after a wait found the
\* table and session assurance was then invoked, also when the first wait found
\* it.  When wait_for_table ends in a timeout the row is ERROR with a timeout
\* comment, one capture is attempted, and no lookup and no extraction was made.
C16_StepsInOrder ==
    /\ pc \in {"wait_for_table", "wait_retry"} => obs.navs = 1 /\ obs.mainSess = 0
    /\ obs.waits >= 1 => obs.navs = 1
    /\ obs.mainSess >= 1 => obs.waits >= 1
    /\ pc \in {"locate", "inner_text"} =>
          obs.navs = 1 /\ obs.waits >= 1 /\ obs.mainSess = 1 /\ page.table
    /\ pc = "locate" => obs.found = "none"
    /\ pc = "inner_text" => obs.found = "present"
    /\ obs.found # "none" => obs.mainSess = 1
    /\ pc \in CheckPcs /\ (date_text # <<>> \/ year # None) => obs.found = "present"
    /\ obs.site = "wait" /\ exc = "Timeout" =>
          /\ obs.waitTimeouts = 2
          /\ obs.mainSess = 0
          /\ obs.found = "none"
          /\ date_text = <<>> /\ year = None
          /\ AtAppend => /\ status = "ERROR"
                          /\ comment = ErrorComment("Timeout", "Timeout")
                          /\ obs.shots = 1

\* C16 witness: the first wait found the table, session assurance was invoked
\* and returned, and the row was found and is about to be read.
C16_Witness ==
    /\ pc = "inner_text"
    /\ obs.waits = 1
    /\ obs.waitTimeouts = 0
    /\ obs.mainSess = 1
    /\ obs.found = "present"

\* C17: every operation on the browser context is guarded, the navigation to the
\* admin root before the loop and the closing of the context after it included:
\* once the identifiers are loaded, no fault ends the run.
C17_ContextFaultsNeverAbort == pc # "aborted"

\* the pieces that DATE_RE matches whole, and the year of those strptime accepts
StampSegs == {T_ok, T_old, T_leap, T_gap, T_bad, T_hour24}

SegYear(seg) ==
    CASE seg = T_ok -> Some(OK_YEAR)
      [] seg = T_gap -> Some(OK_YEAR)
      [] seg = T_old -> Some(OK_YEAR - 1)
      [] seg = T_leap -> Some(2024)
      [] OTHER -> None

\* the first piece of f that is a date and time, <<>> when there is none
FirstStamp(f) ==
    LET ks == {k \in 1..Len(f) : f[k] \in StampSegs}
    IN  IF ks = {} THEN <<>> ELSE f[CHOOSE k \in ks : \A z \in ks : k <= z]

\* the text extract_year was given
ExtractText == page.rows[1].text

\* C18: extract_year looks at the first date and time of the text only: a text
\* without one gives ("", None); a first one that is a calendar date gives that
\* substring and its year; a first one that is no calendar date gives that
\* substring and None, also when a valid date and time follows it; and the two
\* calls on one text return the same.
C18_FirstMatchDecides ==
    pc = "extract_year" =>
        /\ \A f \in SegLists :
              Flatten(f) = ExtractText =>
                  \A k \in 1..Len(results) :
                      /\ results[k].date_text = FirstStamp(f)
                      /\ results[k].year = SegYear(FirstStamp(f))
        /\ ExtractText = T_two =>
              \A k \in 1..Len(results) :
                  results[k] = [date_text |-> T_bad, year |-> None]
        /\ ExtractText = T_cells =>
              \A k \in 1..Len(results) :
                  results[k] = [date_text |-> T_ok, year |-> Some(OK_YEAR)]
        /\ Len(results) = 2 => results[1] = results[2]
        /\ results # <<>> => date_text = results[1].date_text /\ year = results[1].year

\* C18 witness: extract_year was called twice on an impossible date followed by a
\* valid one, and returned the impossible date and no year.
C18_Witness ==
    /\ pc = "extract_year"
    /\ ExtractText = T_two
    /\ Len(results) = 2
    /\ results[2].date_text = T_bad
    /\ results[2].year = None

\* C19: a row with status ERROR or NOT FOUND has no year and an empty date
\* text: the check of an identifier starts with both reset, they are set only by
\* the extraction, and no fault is raised once the extraction has run.
C19_NoDateWithoutRow ==
    /\ \A k \in 1..Len(results) :
          results[k].status \in {"ERROR", "NOT FOUND"} =>
              results[k].year = None /\ results[k].date_text = <<>>
    /\ pc \in CheckPcs /\ (pc # "append" \/ status \in {"ERROR", "NOT FOUND"}) =>
          year = None /\ date_text = <<>>
    /\ pc \in CheckPcs /\ Propagated => year = None /\ date_text = <<>>

\* C19 witness: the row of the first identifier has a date text and a year, and
\* the check of the second identifier ended in ERROR with neither.
C19_Witness ==
    /\ AtAppend
    /\ Len(results) = 1
    /\ results[1].date_text # <<>>
    /\ results[1].year # None
    /\ status = "ERROR"
    /\ year = None
    /\ date_text = <<>>

\* C20: the navigation to the admin root is attempted only in the clause that
\* catches a Playwright fault that is no timeout; a timeout (of the navigation,
\* of the second wait or of the reading of the row) and a fault that is no
\* Playwright fault are recorded as ERROR with no recovery navigation and no
\* session assurance, and the page stays as the failed check left it until the
\* next identifier's navigation.
C20_RecoveryOnlyForDriverFault ==
    /\ [](/\ pc = "recover" => exc = "PWError" /\ status = "ERROR"
          /\ obs.recNavs >= 1 \/ obs.recSess >= 1 => exc = "PWError"
          /\ AtAppend /\ exc \in {"Timeout", "Exception"} =>
                /\ status = "ERROR"
                /\ comment = ErrorComment(exc, exc)
                /\ obs.recNavs = 0
                /\ obs.recSess = 0)
    /\ [][/\ pc = "except" /\ exc # "PWError" => pc' = "append" /\ page' = page
          /\ pc \in {"append", "loop"} => page' = page
          /\ page' # page =>
                pc \in {"start", "goto", "wait_for_table", "wait_retry", "recover", "close"}
         ]_vars

\* C20 witness: the check of the first identifier ended in a timeout of the
\* second wait, on the login form; the second identifier's navigation is about
\* to start and the tab still shows the login form.
C20_Witness ==
    /\ pc = "goto"
    /\ idx = 2
    /\ results[1].status = "ERROR"
    /\ results[1].comment.kind = "Timeout"
    /\ is_login_page(page)
    /\ ~is_logged_in_admin(page)

====
